---- MODULE Spec2Model ----
(***************************************************************************)
(* The authenticated-request helper of solapi-go (package apirequest):     *)
(* NewAPIRequest, SetCustomConfig, GetAuthorization, GET, Request and the  *)
(* POST/PUT/DELETE aliases, with the callers of one shared *APIRequest     *)
(* running concurrently.                                                   *)
(*                                                                         *)
(* A Go string is a sequence of bytes and is modelled as a sequence of     *)
(* numbers 0..255; the comments give the text of every literal.            *)
(***************************************************************************)
EXTENDS Integers, Sequences, FiniteSets, TLC

VARIABLES
  client,   \* the fields of the one *APIRequest all callers share
  cfgArg,   \* the map of the latest SetCustomConfig call
  cfgRet,   \* what that call returned
  pc,       \* where each caller is in its call
  fn,       \* the function each caller is in: GET or Request
  arg,      \* the params each caller passed
  req,      \* the *http.Request of each call
  signing,  \* date and salt of the call's GetAuthorization
  resp,     \* the *http.Response of each call
  out,      \* the error each call returned and the caller's customStruct
  meter     \* how often each call signed, sent and decoded

vars == <<client, cfgArg, cfgRet, pc, fn, arg, req, signing, resp, out, meter>>

callVars == <<pc, fn, arg, req, signing, resp, out, meter>>

-----------------------------------------------------------------------------
(* Bounds of the model.                                                    *)

\* goroutines that call into the one client at the same time
MaxCallers == 2
\* most entries of a map handed to SetCustomConfig
MaxConfigKeys == 2

-----------------------------------------------------------------------------
(* crypto/sha256, crypto/hmac and encoding/hex, as the Go library computes *)
(* them.  A 32-bit word is the pair <<high 16 bits, low 16 bits>>.          *)
(* A value that is used more than once is bound through a one-element set  *)
(* (CHOOSE r \in {f(v) : v \in {e}} : TRUE), which evaluates e once.       *)

RECURSIVE XorN(_, _, _)
XorN(a, b, n) == IF n = 0 THEN 0
                 ELSE ((a + b) % 2) + 2 * XorN(a \div 2, b \div 2, n - 1)

RECURSIVE AndN(_, _, _)
AndN(a, b, n) == IF n = 0 THEN 0
                 ELSE ((a % 2) * (b % 2)) + 2 * AndN(a \div 2, b \div 2, n - 1)

RECURSIVE Pow2(_)
Pow2(n) == IF n = 0 THEN 1 ELSE 2 * Pow2(n - 1)

Xor32(a, b) == <<XorN(a[1], b[1], 16), XorN(a[2], b[2], 16)>>
And32(a, b) == <<AndN(a[1], b[1], 16), AndN(a[2], b[2], 16)>>
Not32(a) == <<65535 - a[1], 65535 - a[2]>>
Add32(a, b) == LET lo == a[2] + b[2]
                   hi == a[1] + b[1] + (lo \div 65536)
               IN <<hi % 65536, lo % 65536>>
RotR16(hi, lo, n) == LET p == Pow2(n)
                         q == Pow2(16 - n)
                     IN <<(hi \div p) + (lo % p) * q, (lo \div p) + (hi % p) * q>>
RotR(a, n) == IF n >= 16 THEN RotR16(a[2], a[1], n - 16) ELSE RotR16(a[1], a[2], n)
ShR(a, n) == IF n >= 16 THEN <<0, a[1] \div Pow2(n - 16)>>
             ELSE <<a[1] \div Pow2(n), (a[2] \div Pow2(n)) + (a[1] % Pow2(n)) * Pow2(16 - n)>>

Ch(e, f, g) == Xor32(And32(e, f), And32(Not32(e), g))
Maj(a, b, c) == Xor32(Xor32(And32(a, b), And32(a, c)), And32(b, c))
BSig0(a) == Xor32(Xor32(RotR(a, 2), RotR(a, 13)), RotR(a, 22))
BSig1(e) == Xor32(Xor32(RotR(e, 6), RotR(e, 11)), RotR(e, 25))
SSig0(w) == Xor32(Xor32(RotR(w, 7), RotR(w, 18)), ShR(w, 3))
SSig1(w) == Xor32(Xor32(RotR(w, 17), RotR(w, 19)), ShR(w, 10))

\* the 64 round constants of SHA-256
K256 == <<
 <<17034, 12184>>, <<28983, 17553>>, <<46528, 64463>>, <<59829, 56229>>,
 <<14678, 49755>>, <<23025, 4593>>, <<37439, 33444>>, <<43804, 24277>>,
 <<55303, 43672>>, <<4739, 23297>>, <<9265, 34238>>, <<21772, 32195>>,
 <<29374, 23924>>, <<32990, 45566>>, <<39900, 1703>>, <<49563, 61812>>,
 <<58523, 27073>>, <<61374, 18310>>, <<4033, 40390>>, <<9228, 41420>>,
 <<11753, 11375>>, <<19060, 33962>>, <<23728, 43484>>, <<30457, 35034>>,
 <<38974, 20818>>, <<43057, 50797>>, <<45059, 10184>>, <<48985, 32711>>,
 <<50912, 3059>>, <<54695, 37191>>, <<1738, 25425>>, <<5161, 10599>>,
 <<10167, 2693>>, <<11803, 8504>>, <<19756, 28156>>, <<21304, 3347>>,
 <<25866, 29524>>, <<30314, 2747>>, <<33218, 51502>>, <<37490, 11397>>,
 <<41663, 59553>>, <<43034, 26187>>, <<49739, 35696>>, <<51052, 20899>>,
 <<53650, 59417>>, <<54937, 1572>>, <<62478, 13701>>, <<4202, 41072>>,
 <<6564, 49430>>, <<7735, 27656>>, <<10056, 30540>>, <<13488, 48309>>,
 <<14620, 3251>>, <<20184, 43594>>, <<23452, 51791>>, <<26670, 28659>>,
 <<29839, 33518>>, <<30885, 25455>>, <<33992, 30740>>, <<36039, 520>>,
 <<37054, 65530>>, <<42064, 27883>>, <<48889, 41975>>, <<50801, 30962>> >>
\* the initial hash value of SHA-256
InitialHash == <<
 <<27145, 58983>>, <<47975, 44677>>, <<15470, 62322>>, <<42319, 62778>>,
 <<20750, 21119>>, <<39685, 26764>>, <<8067, 55723>>, <<23520, 52505>> >>

NextW(w) == LET n == Len(w) + 1
            IN Add32(Add32(SSig1(w[n - 2]), w[n - 7]), Add32(SSig0(w[n - 15]), w[n - 16]))

\* the message schedule w extended by n words
RECURSIVE Schedule(_, _)
Schedule(w, n) ==
  IF n = 0 THEN w
  ELSE IF n = 1 THEN Append(w, NextW(w))
  ELSE CHOOSE r \in {Schedule(v, n - (n \div 2)) : v \in {Schedule(w, n \div 2)}} : TRUE

Round(s, k, w) ==
  LET t1 == Add32(Add32(Add32(s[8], BSig1(s[5])), Add32(Ch(s[5], s[6], s[7]), k)), w)
      t2 == Add32(BSig0(s[1]), Maj(s[1], s[2], s[3]))
  IN <<Add32(t1, t2), s[1], s[2], s[3], Add32(s[4], t1), s[5], s[6], s[7]>>

\* rounds lo..hi applied in order to the working state s
RECURSIVE Rounds(_, _, _, _)
Rounds(s, w, lo, hi) ==
  IF lo = hi THEN Round(s, K256[lo], w[lo])
  ELSE LET mid == (lo + hi) \div 2
       IN CHOOSE r \in {Rounds(m, w, mid + 1, hi) : m \in {Rounds(s, w, lo, mid)}} : TRUE

BlockWords(b) ==
  [i \in 1..16 |-> <<b[4 * i - 3] * 256 + b[4 * i - 2], b[4 * i - 1] * 256 + b[4 * i]>>]

AddState(h, s) ==
  <<Add32(h[1], s[1]), Add32(h[2], s[2]), Add32(h[3], s[3]), Add32(h[4], s[4]),
    Add32(h[5], s[5]), Add32(h[6], s[6]), Add32(h[7], s[7]), Add32(h[8], s[8])>>

Compress(h, b) ==
  CHOOSE r \in {AddState(h, s) :
                  s \in {Rounds(h, w, 1, 64) : w \in {Schedule(BlockWords(b), 48)}}} : TRUE

Zeros(n) == [i \in 1..n |-> 0]

\* the message length in bits, big-endian in 8 bytes (messages under 2^20 bytes)
LenBytes(n) == <<0, 0, 0, 0, 0, (n * 8) \div 65536, ((n * 8) \div 256) % 256, (n * 8) % 256>>

Pad(m) == m \o <<128>> \o Zeros((119 - (Len(m) % 64)) % 64) \o LenBytes(Len(m))

RECURSIVE Blocks(_, _)
Blocks(p, n) ==
  IF n = 0 THEN InitialHash
  ELSE CHOOSE r \in {Compress(h, SubSeq(p, 64 * n - 63, 64 * n)) : h \in {Blocks(p, n - 1)}} : TRUE

WordBytes(w) == <<w[1] \div 256, w[1] % 256, w[2] \div 256, w[2] % 256>>

Digest(h) == WordBytes(h[1]) \o WordBytes(h[2]) \o WordBytes(h[3]) \o WordBytes(h[4]) \o
             WordBytes(h[5]) \o WordBytes(h[6]) \o WordBytes(h[7]) \o WordBytes(h[8])

Sha256(m) == CHOOSE r \in {Digest(Blocks(p, Len(p) \div 64)) : p \in {Pad(m)}} : TRUE

XorBytes(b, c) == [i \in 1..Len(b) |-> XorN(b[i], c, 8)]

\* hmac.New: a key longer than the block is hashed, then padded with zeros
KeyBlock(k) == IF Len(k) > 64 THEN Sha256(k) \o Zeros(32) ELSE k \o Zeros(64 - Len(k))

HmacKeyed(kb, m) ==
  CHOOSE r \in {Sha256(XorBytes(kb, 92) \o inner) :
                  inner \in {Sha256(XorBytes(kb, 54) \o m)}} : TRUE

HmacSha256(k, m) == CHOOSE r \in {HmacKeyed(kb, m) : kb \in {KeyBlock(k)}} : TRUE

\* hex.EncodeToString: two lower-case digits a byte ("0".."9" = 48..57, "a".."f" = 97..102)
HexDigit(d) == IF d < 10 THEN 48 + d ELSE 87 + d
HexEncode(b) == [i \in 1..(2 * Len(b)) |->
                   IF i % 2 = 1 THEN HexDigit(b[(i + 1) \div 2] \div 16)
                   ELSE HexDigit(b[i \div 2] % 16)] \o <<>>

-----------------------------------------------------------------------------
(* Text literals of apirequest.go.                                         *)

\* "GO-SDK v1.0"
SdkVersionText == <<71, 79, 45, 83, 68, 75, 32, 118, 49, 46, 48>>

\* "HMAC-SHA256 apiKey="
AuthPrefix == <<72, 77, 65, 67, 45, 83, 72, 65, 50, 53, 54, 32, 97, 112, 105, 75, 101, 121, 61>>

\* ", date="
AuthDate == <<44, 32, 100, 97, 116, 101, 61>>

\* ", salt="
AuthSalt == <<44, 32, 115, 97, 108, 116, 61>>

\* ", signature="
AuthSignature == <<44, 32, 115, 105, 103, 110, 97, 116, 117, 114, 101, 61>>

\* "://"
SchemeSep == <<58, 47, 47>>

\* "/"
Slash == <<47>>

\* "application/json"
JsonContentType == <<97, 112, 112, 108, 105, 99, 97, 116, 105, 111, 110, 47, 106, 115, 111, 110>>

\* "FailedToConvertJSON"
ErrConvertText == <<70, 97, 105, 108, 101, 100, 84, 111, 67, 111, 110, 118, 101, 114, 116, 74, 83, 79, 78>>

\* "FailedToClientRequest"
ErrClientText == <<70, 97, 105, 108, 101, 100, 84, 111, 67, 108, 105, 101, 110, 116, 82, 101, 113, 117, 101, 115, 116>>

-----------------------------------------------------------------------------
(* The inputs the model draws from.                                        *)

\* "NCSKEY01"
KeyOne == <<78, 67, 83, 75, 69, 89, 48, 49>>

\* "K2"
KeyTwo == <<75, 50>>

\* "s3cret"
SecretOne == <<115, 51, 99, 114, 101, 116>>

\* a secret longer than the 64-byte block of SHA-256: "0123456789" seven times
SecretLong == [i \in 1..70 |-> 48 + ((i - 1) % 10)] \o <<>>

\* "https"
Https == <<104, 116, 116, 112, 115>>

\* "api.solapi.com"
SolapiDomain == <<97, 112, 105, 46, 115, 111, 108, 97, 112, 105, 46, 99, 111, 109>>

\* "app1"
AppOne == <<97, 112, 112, 49>>

\* "x"
ValueX == <<120>>

\* "storage/v1/files"
FilesResource == <<115, 116, 111, 114, 97, 103, 101, 47, 118, 49, 47, 102, 105, 108, 101, 115>>

\* "limit"
LimitKey == <<108, 105, 109, 105, 116>>

\* "1"
LimitOne == <<49>>

\* "linux/go1.13"
OsPlatformText == <<108, 105, 110, 117, 120, 47, 103, 111, 49, 46, 49, 51>>

\* "BadRequest"
TextBadRequest == <<66, 97, 100, 82, 101, 113, 117, 101, 115, 116>>

\* "bad"
TextBad == <<98, 97, 100>>

\* "abc"
TextAbc == <<97, 98, 99>>

EnvNames == {"SOLAPI_API_KEY", "SOLAPI_API_SECRET", "SOLAPI_PROTOCOL",
             "SOLAPI_DOMAIN", "SOLAPI_PREFIX", "SOLAPI_APP_ID"}

\* no variable of the environment is set: os.Getenv answers ""
EnvUnset == [n \in EnvNames |-> <<>>]

\* the configuration of the README, with a key and a secret
EnvReadme == [n \in EnvNames |->
                CASE n = "SOLAPI_API_KEY" -> KeyOne
                  [] n = "SOLAPI_API_SECRET" -> SecretOne
                  [] n = "SOLAPI_PROTOCOL" -> Https
                  [] n = "SOLAPI_DOMAIN" -> SolapiDomain
                  [] OTHER -> <<>>]

Keys == {KeyOne, KeyTwo}
Secrets == {<<>>, SecretOne, SecretLong}
Protocols == {<<>>, Https}

\* environments of the single-caller specification
SingleEnvs == {[EnvReadme EXCEPT !["SOLAPI_API_KEY"] = k, !["SOLAPI_API_SECRET"] = s,
                                 !["SOLAPI_PROTOCOL"] = p] :
                 k \in Keys, s \in Secrets, p \in Protocols}

\* instants time.Now() may return: a UTC one, and one in a zone nine hours east
Instants == {[year |-> 2021, month |-> 3, day |-> 9, hour |-> 4, minute |-> 5,
              second |-> 6, offset |-> 0],
             [year |-> 2021, month |-> 12, day |-> 31, hour |-> 23, minute |-> 59,
              second |-> 58, offset |-> 540]}

\* what crypto/rand may put in a buffer of n bytes; all zeros is also what the
\* buffer holds when the read fails, an error RandomString drops
RandomReads(n) == {[i \in 1..n |-> (seed * i) % 256] \o <<>> : seed \in {0, 173}}

\* keys of a map handed to SetCustomConfig: the six the switch knows, one it
\* does not, and "apiKey", which differs from "APIKey" in case
ConfigKeys == {"APIKey", "APISecret", "Protocol", "Domain", "Prefix", "AppId",
               "Timeout", "apiKey"}
ConfigValues == {<<>>, ValueX}

SmallSubsets(S, n) == {T \in SUBSET S : Cardinality(T) <= n}

\* every map of at most MaxConfigKeys entries; the nil map is the empty one
ConfigMaps == UNION {[T -> ConfigValues] : T \in SmallSubsets(ConfigKeys, MaxConfigKeys)}

\* the maps the callers' specification sets while calls run
CallConfigs == {[k \in {"AppId"} |-> AppOne]}

\* the maps the single-caller specification sets
SingleConfigs == {[k \in {"APISecret"} |-> <<>>], [k \in {"APISecret"} |-> SecretLong],
                  [k \in {"APIKey"} |-> KeyTwo], [k \in {"Protocol"} |-> <<>>],
                  [k \in {"Protocol", "APISecret"} |-> IF k = "Protocol" THEN Https ELSE SecretOne]}

-----------------------------------------------------------------------------
(* Go values.                                                              *)

\* an error value: its dynamic type and, for errors.New, its text
Nil == [type |-> "nil", text |-> <<>>]
ErrorsNew(text) == [type |-> "*errors.errorString", text |-> text]
errFailedToConvertJSON == ErrorsNew(ErrConvertText)
errFailedToClientRequest == ErrorsNew(ErrClientText)

\* byte sequences in lexicographic order, as Go compares strings
RECURSIVE LexLess(_, _)
LexLess(a, b) ==
  IF Len(b) = 0 THEN FALSE
  ELSE IF Len(a) = 0 THEN TRUE
  ELSE IF a[1] # b[1] THEN a[1] < b[1]
  ELSE LexLess(Tail(a), Tail(b))

\* the keys of a map[string]string in increasing order
RECURSIVE SortedKeys(_)
SortedKeys(S) ==
  IF S = {} THEN <<>>
  ELSE LET least == CHOOSE k \in S : \A o \in S \ {k} : LexLess(k, o)
       IN <<least>> \o SortedKeys(S \ {least})

\* strconv: the decimal digits of n >= 0, and n in exactly w digits
RECURSIVE Itoa(_)
Itoa(n) == IF n < 10 THEN <<48 + n>> ELSE Itoa(n \div 10) \o <<48 + (n % 10)>>

RECURSIVE Digits(_, _)
Digits(n, w) == IF w = 0 THEN <<>> ELSE Digits(n \div 10, w - 1) \o <<48 + (n % 10)>>

\* time.Time.Format(time.RFC3339): "2006-01-02T15:04:05Z07:00"
RFC3339(t) ==
  Digits(t.year, 4) \o <<45>> \o Digits(t.month, 2) \o <<45>> \o Digits(t.day, 2) \o <<84>> \o
  Digits(t.hour, 2) \o <<58>> \o Digits(t.minute, 2) \o <<58>> \o Digits(t.second, 2) \o
  (IF t.offset = 0 THEN <<90>>
   ELSE (IF t.offset > 0 THEN <<43>> ELSE <<45>>) \o
        Digits((IF t.offset > 0 THEN t.offset ELSE 0 - t.offset) \div 60, 2) \o <<58>> \o
        Digits((IF t.offset > 0 THEN t.offset ELSE 0 - t.offset) % 60, 2))

\* a map[string]string is a function from keys (byte sequences) to values
NoParams == [k \in {} |-> <<>>]
LimitParams == [k \in {LimitKey} |-> LimitOne]
FileParams == [k \in {<<102, 105, 108, 101>>} |-> TextAbc]

\* url.Values.Encode for keys and values of unreserved characters:
\* "k=v" for each key in increasing order, joined by "&"
RECURSIVE JoinPairs(_, _, _, _)
JoinPairs(m, keys, eq, sep) ==
  IF Len(keys) = 0 THEN <<>>
  ELSE eq[1] \o keys[1] \o eq[2] \o m[keys[1]] \o eq[3] \o
       (IF Len(keys) = 1 THEN <<>> ELSE sep \o JoinPairs(m, Tail(keys), eq, sep))

QueryEncode(params) ==
  JoinPairs(params, SortedKeys(DOMAIN params), <<<<>>, <<61>>, <<>>>>, <<38>>)

\* a value handed to Request as params: a map[string]string, or a value
\* encoding/json refuses (a channel)
MapPayload(m) == [kind |-> "map", map |-> m]
ChanPayload == [kind |-> "chan", map |-> NoParams]

\* json.Marshal: {"k":"v",...} with the keys in increasing order (keys and
\* values without characters that need escaping); an error for a channel
Marshal(params) ==
  IF params.kind = "map"
  THEN [err |-> Nil,
        json |-> <<123>> \o JoinPairs(params.map, SortedKeys(DOMAIN params.map),
                                      <<<<34>>, <<34, 58, 34>>, <<34>>>>, <<44>>) \o <<125>>]
  ELSE [err |-> [type |-> "*json.UnsupportedTypeError", text |-> <<>>], json |-> <<>>]

-----------------------------------------------------------------------------
(* HTTP responses.  A body is the JSON document it holds.                  *)

NoMembers == [k \in {} |-> <<>>]
\* {"id":"abc"}
ResultDoc == [form |-> "object", members |-> [k \in {"id"} |-> TextAbc]]
\* {"errorCode":"BadRequest","errorMessage":"bad"}
ErrorDoc == [form |-> "object",
             members |-> [k \in {"errorCode", "errorMessage"} |->
                            IF k = "errorCode" THEN TextBadRequest ELSE TextBad]]
\* []
ArrayDoc == [form |-> "array", members |-> NoMembers]
\* not-json
MalformedDoc == [form |-> "malformed", members |-> NoMembers]
\* no body at all
EmptyDoc == [form |-> "empty", members |-> NoMembers]
\* {"id":"abc"}not-json
TrailingDoc == [form |-> "trailing", members |-> [k \in {"id"} |-> TextAbc]]

Bodies == {ResultDoc, ErrorDoc, ArrayDoc, MalformedDoc, EmptyDoc, TrailingDoc}
Statuses == {200, 400, 500}

\* the fields of the struct the caller passes as customStruct, and its zero value
ResultFields == {"id"}
ZeroResult == [f \in ResultFields |-> <<>>]

\* the fields of types.CustomError by their JSON names, and its zero value
CustomErrorFields == {"errorCode", "errorMessage"}
ZeroCustomError == [f \in CustomErrorFields |-> <<>>]

\* json.NewDecoder(body).Decode(&v) for a struct v: the error, and v afterwards.
\* Members the struct has no field for are skipped; fields the document does
\* not name keep their value.  Decode reads one JSON value and stops: what
\* follows the value in the body is not looked at.
Decode(body, v) ==
  CASE body.form = "empty" -> [err |-> [type |-> "io.EOF", text |-> <<>>], value |-> v]
    [] body.form = "malformed" -> [err |-> [type |-> "*json.SyntaxError", text |-> <<>>], value |-> v]
    [] body.form = "array" -> [err |-> [type |-> "*json.UnmarshalTypeError", text |-> <<>>], value |-> v]
    [] OTHER -> [err |-> Nil,
                 value |-> [f \in DOMAIN v |->
                              IF f \in DOMAIN body.members THEN body.members[f] ELSE v[f]]]

-----------------------------------------------------------------------------
(* The client and its callers.                                             *)

Callers == 1..MaxCallers

\* the bytes RandomString is asked for by GetAuthorization
SaltBytes == 20

ConfigFields == {"APIKey", "APISecret", "Protocol", "Domain", "Prefix", "AppId"}

\* NewAPIRequest: response and statusCode empty, platform and version set,
\* the six configuration fields from the environment, Config nil
NewAPIRequest(env) ==
  [response |-> <<>>, statusCode |-> <<>>,
   OsPlatform |-> OsPlatformText, SdkVersion |-> SdkVersionText,
   APIKey |-> env["SOLAPI_API_KEY"], APISecret |-> env["SOLAPI_API_SECRET"],
   Protocol |-> env["SOLAPI_PROTOCOL"], Domain |-> env["SOLAPI_DOMAIN"],
   Prefix |-> env["SOLAPI_PREFIX"], AppId |-> env["SOLAPI_APP_ID"],
   Config |-> NoParams]

\* SetField with the case of "Prefix" writing Domain
SetFieldSlip(a, key, value) ==
  CASE key = "APIKey" -> [a EXCEPT !.APIKey = value]
    [] key = "APISecret" -> [a EXCEPT !.APISecret = value]
    [] key = "Protocol" -> [a EXCEPT !.Protocol = value]
    [] key = "Domain" -> [a EXCEPT !.Domain = value]
    [] key = "Prefix" -> [a EXCEPT !.Domain = value]
    [] key = "AppId" -> [a EXCEPT !.AppId = value]
    [] OTHER -> a

\* one pass of the loop of SetCustomConfig: the switch on key
SetField(a, key, value) ==
  CASE key = "APIKey" -> [a EXCEPT !.APIKey = value]
    [] key = "APISecret" -> [a EXCEPT !.APISecret = value]
    [] key = "Protocol" -> [a EXCEPT !.Protocol = value]
    [] key = "Domain" -> [a EXCEPT !.Domain = value]
    [] key = "Prefix" -> [a EXCEPT !.Prefix = value]
    [] key = "AppId" -> [a EXCEPT !.AppId = value]
    [] OTHER -> a

\* for key, value := range config, over the keys not yet visited
RECURSIVE RangeConfig(_, _, _)
RangeConfig(a, config, keys) ==
  IF keys = {} THEN a
  ELSE LET key == CHOOSE k \in keys : TRUE
       IN RangeConfig(SetField(a, key, config[key]), config, keys \ {key})

\* RandomString(n), given the n bytes crypto/rand delivered
RandomString(bytes) == HexEncode(bytes)

\* SignedMessage with the salt first
SaltFirst(date, salt) == salt \o date

\* the message GetAuthorization signs
SignedMessage(date, salt) == date \o salt

\* the signatures of the inputs the model draws, computed once
HmacMemo ==
  [p \in {<<k, SignedMessage(RFC3339(t), RandomString(r))>> :
            k \in Secrets \cup {SecretOne}, t \in Instants, r \in RandomReads(SaltBytes)} |->
     HexEncode(HmacSha256(p[1], p[2]))]

\* hex.EncodeToString(h.Sum(nil)) for h := hmac.New(sha256.New, key); h.Write(message)
HmacSha256Hex(key, message) ==
  IF <<key, message>> \in DOMAIN HmacMemo THEN HmacMemo[<<key, message>>]
  ELSE HexEncode(HmacSha256(key, message))

\* fmt.Sprintf("HMAC-SHA256 apiKey=%s, date=%s, salt=%s, signature=%s", ...)
AuthorizationText(apiKey, date, salt, signature) ==
  AuthPrefix \o apiKey \o AuthDate \o date \o AuthSalt \o salt \o AuthSignature \o signature

\* GetAuthorization, given what time.Now() and crypto/rand delivered
GetAuthorization(a, now, random) ==
  LET salt == RandomString(random)
      date == RFC3339(now)
      signature == HmacSha256Hex(a.APISecret, SignedMessage(date, salt))
  IN [date |-> date, salt |-> salt,
      authorization |-> AuthorizationText(a.APIKey, date, salt, signature)]

\* fmt.Sprintf("%s://%s/%s%s", a.Protocol, a.Domain, a.Prefix, resource)
RequestURL(a, resource) ==
  a.Protocol \o SchemeSep \o a.Domain \o Slash \o a.Prefix \o resource

\* http.NewRequest answers (nil, error) when the URL does not parse; of the
\* URLs built here that is the one with an empty scheme, which starts ":"
NewRequestFails(url) == url[1] = 58

\* the *http.Request a call holds: none yet, nil, or a request
NoReq == [ptr |-> "none"]
NilReq == [ptr |-> "nil"]
NoHeader == [h \in {} |-> <<>>]
HttpRequest(method, url, query, body) ==
  [ptr |-> "req", method |-> method, url |-> url, query |-> query, body |-> body,
   header |-> NoHeader]

\* req.Header.Add, twice
AddHeaders(r, authorization) ==
  [r EXCEPT !.header = ("Content-Type" :> JsonContentType) @@
                       ("Authorization" :> authorization)]

\* the *http.Response of a call: none yet, or status, body and whether
\* the body is still open
NoResp == [status |-> 0, body |-> EmptyDoc, open |-> FALSE]

NoArg == [kind |-> "none", map |-> NoParams]
NoSigning == [date |-> <<>>, salt |-> <<>>]
NoOut == [err |-> Nil, result |-> ZeroResult]
ZeroMeter == [signs |-> 0, sends |-> 0, decodes |-> 0]

\* ErrString without the status code
ErrStringNoStatus(errorStruct, statusCode) ==
  errorStruct["errorCode"] \o <<58>> \o errorStruct["errorMessage"]

\* fmt.Sprintf("%s[%d]:%s", errorStruct.ErrorCode, resp.StatusCode, errorStruct.ErrorMessage)
ErrString(errorStruct, statusCode) ==
  errorStruct["errorCode"] \o <<91>> \o Itoa(statusCode) \o <<93, 58>> \o
  errorStruct["errorMessage"]

\* an unrecovered panic in one goroutine ends the process
Crashed == \E c \in Callers : pc[c] = "panicked"

-----------------------------------------------------------------------------
(* The operations.                                                         *)

NoCallState ==
  /\ pc = [c \in Callers |-> "idle"]
  /\ fn = [c \in Callers |-> "none"]
  /\ arg = [c \in Callers |-> NoArg]
  /\ req = [c \in Callers |-> NoReq]
  /\ signing = [c \in Callers |-> NoSigning]
  /\ resp = [c \in Callers |-> NoResp]
  /\ out = [c \in Callers |-> NoOut]
  /\ meter = [c \in Callers |-> ZeroMeter]

NoConfigCall ==
  /\ cfgArg = NoParams
  /\ cfgRet = [type |-> "none", text |-> <<>>]

\* the callers share a client made under the README's configuration
Init ==
  /\ client = NewAPIRequest(EnvReadme)
  /\ NoConfigCall
  /\ NoCallState

\* one caller, any key, secret and protocol in the environment
InitSingle ==
  /\ client \in {NewAPIRequest(env) : env \in SingleEnvs}
  /\ NoConfigCall
  /\ NoCallState

\* a client made with nothing set in the environment
InitConfig ==
  /\ client = NewAPIRequest(EnvUnset)
  /\ NoConfigCall
  /\ NoCallState

\* SetCustomConfig(config): returns nil
SetCustomConfig(config) ==
  /\ ~Crashed
  /\ client' = RangeConfig(client, config, DOMAIN config)
  /\ cfgArg' = config
  /\ cfgRet' = Nil
  /\ UNCHANGED callVars

\* GET up to the headers: the request is built and the query set; a nil
\* request makes req.URL panic
GET(c, resource, params) ==
  /\ ~Crashed
  /\ pc[c] = "idle"
  /\ LET url == RequestURL(client, resource)
     IN IF NewRequestFails(url)
        THEN /\ pc' = [pc EXCEPT ![c] = "panicked"]
             /\ req' = [req EXCEPT ![c] = NilReq]
        ELSE /\ pc' = [pc EXCEPT ![c] = "built"]
             /\ req' = [req EXCEPT ![c] = HttpRequest("GET", url, QueryEncode(params), <<>>)]
  /\ fn' = [fn EXCEPT ![c] = "GET"]
  /\ arg' = [arg EXCEPT ![c] = MapPayload(params)]
  /\ UNCHANGED <<client, cfgArg, cfgRet, signing, resp, out, meter>>

\* Request with the error of json.Marshal dropped
RequestUnchecked(c, method, resource, params) ==
  /\ ~Crashed
  /\ pc[c] = "idle"
  /\ pc' = [pc EXCEPT ![c] = "built"]
  /\ req' = [req EXCEPT ![c] =
               IF NewRequestFails(RequestURL(client, resource)) THEN NilReq
               ELSE HttpRequest(method, RequestURL(client, resource), <<>>, Marshal(params).json)]
  /\ fn' = [fn EXCEPT ![c] = "Request"]
  /\ arg' = [arg EXCEPT ![c] = params]
  /\ UNCHANGED <<client, cfgArg, cfgRet, signing, resp, out, meter>>

\* Request up to the headers: params is marshalled, then the request built
\* (nil when the URL does not parse)
Request(c, method, resource, params) ==
  /\ ~Crashed
  /\ pc[c] = "idle"
  /\ LET m == Marshal(params)
         url == RequestURL(client, resource)
     IN IF m.err # Nil
        THEN /\ pc' = [pc EXCEPT ![c] = "returned"]
             /\ out' = [out EXCEPT ![c].err = errFailedToConvertJSON]
             /\ req' = req
        ELSE /\ pc' = [pc EXCEPT ![c] = "built"]
             /\ out' = out
             /\ req' = [req EXCEPT ![c] = IF NewRequestFails(url) THEN NilReq
                                          ELSE HttpRequest(method, url, <<>>, m.json)]
  /\ fn' = [fn EXCEPT ![c] = "Request"]
  /\ arg' = [arg EXCEPT ![c] = params]
  /\ UNCHANGED <<client, cfgArg, cfgRet, signing, resp, meter>>

POST(c, resource, params) == Request(c, "POST", resource, params)
PUT(c, resource, params) == Request(c, "PUT", resource, params)
DELETE(c, resource, params) == Request(c, "DELETE", resource, params)

\* SetHeaders with the authorization kept in a.response and used again
SetHeadersCached(c) ==
  /\ ~Crashed
  /\ pc[c] = "built"
  /\ \E now \in Instants, random \in RandomReads(SaltBytes) :
       LET g == GetAuthorization(client, now, random)
           authorization == IF client.response # <<>> THEN client.response ELSE g.authorization
       IN /\ signing' = [signing EXCEPT ![c] = [date |-> g.date, salt |-> g.salt]]
          /\ client' = [client EXCEPT !.response = authorization]
          /\ IF req[c] = NilReq
             THEN /\ pc' = [pc EXCEPT ![c] = "panicked"]
                  /\ req' = req
             ELSE /\ pc' = [pc EXCEPT ![c] = "signed"]
                  /\ req' = [req EXCEPT ![c] = AddHeaders(req[c], authorization)]
  /\ meter' = [meter EXCEPT ![c].signs = @ + 1]
  /\ UNCHANGED <<cfgArg, cfgRet, fn, arg, resp, out>>

\* "Set Headers": GetAuthorization, then the two headers; req.Header panics
\* on a nil request
SetHeaders(c) ==
  /\ ~Crashed
  /\ pc[c] = "built"
  /\ \E now \in Instants, random \in RandomReads(SaltBytes) :
       LET g == GetAuthorization(client, now, random)
       IN /\ signing' = [signing EXCEPT ![c] = [date |-> g.date, salt |-> g.salt]]
          /\ IF req[c] = NilReq
             THEN /\ pc' = [pc EXCEPT ![c] = "panicked"]
                  /\ req' = req
             ELSE /\ pc' = [pc EXCEPT ![c] = "signed"]
                  /\ req' = [req EXCEPT ![c] = AddHeaders(req[c], g.authorization)]
  /\ meter' = [meter EXCEPT ![c].signs = @ + 1]
  /\ UNCHANGED <<client, cfgArg, cfgRet, fn, arg, resp, out>>

\* DoFails with the error of client.Do dropped: the call goes on to decode
DoFailsUnchecked(c) ==
  /\ ~Crashed
  /\ pc[c] = "signed"
  /\ pc' = [pc EXCEPT ![c] = "responded"]
  /\ meter' = [meter EXCEPT ![c].sends = @ + 1]
  /\ req' = [req EXCEPT ![c] = NoReq]
  /\ signing' = [signing EXCEPT ![c] = NoSigning]
  /\ UNCHANGED <<client, cfgArg, cfgRet, fn, arg, resp, out>>

\* client.Do fails: the call returns errFailedToClientRequest
DoFails(c) ==
  /\ ~Crashed
  /\ pc[c] = "signed"
  /\ pc' = [pc EXCEPT ![c] = "returned"]
  /\ out' = [out EXCEPT ![c].err = errFailedToClientRequest]
  /\ meter' = [meter EXCEPT ![c].sends = @ + 1]
  /\ req' = [req EXCEPT ![c] = NoReq]
  /\ signing' = [signing EXCEPT ![c] = NoSigning]
  /\ UNCHANGED <<client, cfgArg, cfgRet, fn, arg, resp>>

\* client.Do answers with a response whose body is open
DoAnswers(c, status, body) ==
  /\ ~Crashed
  /\ pc[c] = "signed"
  /\ pc' = [pc EXCEPT ![c] = "responded"]
  /\ resp' = [resp EXCEPT ![c] = [status |-> status, body |-> body, open |-> TRUE]]
  /\ meter' = [meter EXCEPT ![c].sends = @ + 1]
  /\ req' = [req EXCEPT ![c] = NoReq]
  /\ signing' = [signing EXCEPT ![c] = NoSigning]
  /\ UNCHANGED <<client, cfgArg, cfgRet, fn, arg, out>>

\* Respond with the decode error of a 200 answer dropped
RespondSwallows(r, customStruct) ==
  IF r.status # 200
  THEN LET d == Decode(r.body, ZeroCustomError)
       IN IF d.err # Nil
          THEN [err |-> d.err, result |-> customStruct, open |-> r.open]
          ELSE [err |-> ErrorsNew(ErrString(d.value, r.status)),
                result |-> customStruct, open |-> r.open]
  ELSE [err |-> Nil, result |-> Decode(r.body, customStruct).value, open |-> FALSE]

\* Respond with the decode error of an error body dropped
RespondMasks(r, customStruct) ==
  IF r.status # 200
  THEN [err |-> ErrorsNew(ErrString(Decode(r.body, ZeroCustomError).value, r.status)),
        result |-> customStruct, open |-> r.open]
  ELSE LET d == Decode(r.body, customStruct)
       IN IF d.err # Nil
          THEN [err |-> d.err, result |-> d.value, open |-> r.open]
          ELSE [err |-> Nil, result |-> d.value, open |-> FALSE]

\* from "if resp.StatusCode != 200" to the return: the error returned, the
\* caller's customStruct, and whether the body is open afterwards (the
\* deferred Close is registered after the last decode only)
Respond(r, customStruct) ==
  IF r.status # 200
  THEN LET d == Decode(r.body, ZeroCustomError)
       IN IF d.err # Nil
          THEN [err |-> d.err, result |-> customStruct, open |-> r.open]
          ELSE [err |-> ErrorsNew(ErrString(d.value, r.status)),
                result |-> customStruct, open |-> r.open]
  ELSE LET d == Decode(r.body, customStruct)
       IN IF d.err # Nil
          THEN [err |-> d.err, result |-> d.value, open |-> r.open]
          ELSE [err |-> Nil, result |-> d.value, open |-> FALSE]

\* HandleResponse with the status code kept in a.statusCode
HandleResponseStores(c) ==
  /\ ~Crashed
  /\ pc[c] = "responded"
  /\ LET h == Respond(resp[c], out[c].result)
     IN /\ out' = [out EXCEPT ![c] = [err |-> h.err, result |-> h.result]]
        /\ resp' = [resp EXCEPT ![c].open = h.open]
  /\ client' = [client EXCEPT !.statusCode = Itoa(resp[c].status)]
  /\ pc' = [pc EXCEPT ![c] = "returned"]
  /\ meter' = [meter EXCEPT ![c].decodes = @ + 1]
  /\ UNCHANGED <<cfgArg, cfgRet, fn, arg, req, signing>>

\* the rest of GET and of Request, alike in both
HandleResponse(c) ==
  /\ ~Crashed
  /\ pc[c] = "responded"
  /\ LET h == Respond(resp[c], out[c].result)
     IN /\ out' = [out EXCEPT ![c] = [err |-> h.err, result |-> h.result]]
        /\ resp' = [resp EXCEPT ![c].open = h.open]
  /\ pc' = [pc EXCEPT ![c] = "returned"]
  /\ meter' = [meter EXCEPT ![c].decodes = @ + 1]
  /\ UNCHANGED <<client, cfgArg, cfgRet, fn, arg, req, signing>>

\* the caller takes the result and is free to call again
Finish(c) ==
  /\ ~Crashed
  /\ pc[c] = "returned"
  /\ pc' = [pc EXCEPT ![c] = "idle"]
  /\ fn' = [fn EXCEPT ![c] = "none"]
  /\ arg' = [arg EXCEPT ![c] = NoArg]
  /\ req' = [req EXCEPT ![c] = NoReq]
  /\ signing' = [signing EXCEPT ![c] = NoSigning]
  /\ resp' = [resp EXCEPT ![c] = NoResp]
  /\ out' = [out EXCEPT ![c] = NoOut]
  /\ meter' = [meter EXCEPT ![c] = ZeroMeter]
  /\ UNCHANGED <<client, cfgArg, cfgRet>>

-----------------------------------------------------------------------------
(* The specifications.                                                     *)

\* what the callers hand to Request as params
CallPayloads == {MapPayload(FileParams), ChanPayload}

\* the answers the servers of the callers' specification give
CallStatuses == {200, 400}
CallBodies == {ResultDoc, ErrorDoc, MalformedDoc}

\* a step of caller c after the call is under way
Proceed(c, statuses, bodies) ==
  \/ SetHeaders(c)
  \/ DoFails(c)
  \/ \E status \in statuses, body \in bodies : DoAnswers(c, status, body)
  \/ HandleResponse(c)
  \/ Finish(c)

\* callers of one client, each in GET, POST, PUT or DELETE
Next ==
  \/ \E config \in CallConfigs : SetCustomConfig(config)
  \/ \E c \in Callers : GET(c, FilesResource, LimitParams)
  \/ \E c \in Callers, params \in CallPayloads : POST(c, FilesResource, params)
  \/ \E c \in Callers, params \in CallPayloads : PUT(c, FilesResource, params)
  \/ \E c \in Callers, params \in CallPayloads : DELETE(c, FilesResource, params)
  \/ \E c \in Callers : Proceed(c, CallStatuses, CallBodies)

Spec == Init /\ [][Next]_vars

\* one caller, the configuration changing between its steps, every answer
NextSingle ==
  \/ \E config \in SingleConfigs : SetCustomConfig(config)
  \/ \E params \in {NoParams, LimitParams} : GET(1, FilesResource, params)
  \/ \E params \in CallPayloads \cup {MapPayload(NoParams)} : POST(1, FilesResource, params)
  \/ Proceed(1, Statuses, Bodies)

SpecSingle == InitSingle /\ [][NextSingle]_vars

\* SetCustomConfig alone, with every map of ConfigMaps
NextConfig == \E config \in ConfigMaps : SetCustomConfig(config)

SpecConfig == InitConfig /\ [][NextConfig]_vars

-----------------------------------------------------------------------------
(* The claims.                                                             *)

\* the member of a JSON object, "" when the object has none of that name
Member(body, name) == IF name \in DOMAIN body.members THEN body.members[name] ELSE <<>>

\* a three-digit status code in decimal
StatusText(status) ==
  <<48 + (status \div 100), 48 + ((status \div 10) % 10), 48 + (status % 10)>>

\* the forms of a body that Decode fails on, and the error it fails with
Undecodable == {"empty", "malformed", "array"}
DecodeFailure(form) ==
  [type |-> CASE form = "empty" -> "io.EOF"
              [] form = "malformed" -> "*json.SyntaxError"
              [] form = "array" -> "*json.UnmarshalTypeError",
   text |-> <<>>]

\* caller c has returned from a call that the server answered
Answered(c) == pc[c] = "returned" /\ meter[c].sends = 1 /\ resp[c].status \in Statuses

\* "BadRequest[400]:bad"
BadRequest400Text == <<66, 97, 100, 82, 101, 113, 117, 101, 115, 116, 91, 52, 48, 48, 93, 58, 98, 97, 100>>

\* C1: a call answered with a status other than 200 and a body that decodes
\* as a JSON object returns an error whose text is the body's errorCode, "[", the status
\* code in decimal, "]:" and the body's errorMessage, and leaves the caller's
\* customStruct as it was.
C1_RemoteApiError ==
  \A c \in Callers :
    (Answered(c) /\ resp[c].status # 200 /\ resp[c].body.form \notin Undecodable)
      => /\ out[c].err.type = "*errors.errorString"
         /\ out[c].err.text = Member(resp[c].body, "errorCode") \o <<91>> \o
                              StatusText(resp[c].status) \o <<93, 58>> \o
                              Member(resp[c].body, "errorMessage")
         /\ out[c].result = ZeroResult

C1_Witness ==
  \E c \in Callers :
    /\ Answered(c) /\ fn[c] = "GET"
    /\ resp[c].status = 400 /\ resp[c].body = ErrorDoc
    /\ out[c].err.text = BadRequest400Text

\* C2: a call answered with status 200 and a body that does not decode returns
\* the decoder's error, never nil, with customStruct as it was, after one send
\* and one decode; a call that returns nil after an answer was answered 200
\* with a body whose JSON value decoded, and customStruct holds that value's
\* members; and no call sends twice.
C2_DecodeError ==
  \A c \in Callers :
    /\ (Answered(c) /\ resp[c].status = 200 /\ resp[c].body.form \in Undecodable)
         => /\ out[c].err = DecodeFailure(resp[c].body.form)
            /\ out[c].result = ZeroResult
            /\ meter[c].sends = 1 /\ meter[c].decodes = 1
    /\ (Answered(c) /\ out[c].err = Nil)
         => /\ resp[c].status = 200 /\ resp[c].body.form \notin Undecodable
            /\ \A f \in ResultFields \cap DOMAIN resp[c].body.members :
                 out[c].result[f] = resp[c].body.members[f]
    /\ meter[c].sends <= 1

C2_Witness ==
  \E c \in Callers :
    /\ Answered(c) /\ fn[c] = "Request"
    /\ resp[c].status = 200 /\ resp[c].body = MalformedDoc
    /\ out[c].err.type = "*json.SyntaxError" /\ out[c].result = ZeroResult

\* C3: in every state where a call has returned, the body of its response is
\* closed.
C3_BodyReleased == \A c \in Callers : pc[c] = "returned" => ~resp[c].open

\* C4: a request is signed once, after it is built and before it is sent; the
\* request that is sent carries the Authorization header made from the date
\* and the salt its own call drew; a call that has not signed yet holds no
\* date, salt or header of an earlier call; and no field of the client holds
\* a date, a salt or an authorization of a call.
C4_FreshSignature ==
  /\ [](\A c \in Callers :
          /\ pc[c] = "built"
               => /\ meter[c].signs = 0 /\ meter[c].sends = 0
                  /\ signing[c] = NoSigning
                  /\ req[c].ptr = "req" => req[c].header = NoHeader
          /\ pc[c] = "signed"
               => /\ meter[c].signs = 1 /\ meter[c].sends = 0
                  /\ Len(signing[c].date) > 0 /\ Len(signing[c].salt) = 2 * SaltBytes
                  /\ LET h == req[c].header["Authorization"]
                         front == AuthPrefix \o client.APIKey \o AuthDate \o signing[c].date \o
                                  AuthSalt \o signing[c].salt \o AuthSignature
                     IN /\ Len(h) = Len(front) + 64
                        /\ SubSeq(h, 1, Len(front)) = front
                  /\ \A f \in DOMAIN client :
                       client[f] \notin {signing[c].date, signing[c].salt,
                                         req[c].header["Authorization"]}
          /\ meter[c].sends = 1 => meter[c].signs = 1
          /\ meter[c].signs <= 1)
  /\ [][\A c \in Callers :
          meter'[c].sends > meter[c].sends
            => /\ pc[c] = "signed" /\ meter[c].signs = 1 /\ meter'[c].sends = 1
               /\ "Authorization" \in DOMAIN req[c].header]_vars

C4_Witness ==
  \E c, d \in Callers :
    /\ c # d /\ pc[c] = "signed" /\ pc[d] = "signed"
    /\ signing[c].salt # signing[d].salt
    /\ req[c].header["Authorization"] # req[d].header["Authorization"]

\* RFC 4231, test case 2: HMAC-SHA256 of "what do ya want for nothing?" under "Jefe"
Rfc4231Case2 ==
  HexEncode(HmacSha256(<<74, 101, 102, 101>>,
                       <<119, 104, 97, 116, 32, 100, 111, 32, 121, 97, 32, 119, 97,
                       110, 116, 32, 102, 111, 114, 32, 110, 111, 116, 104, 105, 110,
                       103, 63>>))
    = <<53, 98, 100, 99, 99, 49, 52, 54, 98, 102, 54, 48, 55, 53, 52, 101, 54, 97, 48,
      52, 50, 52, 50, 54, 48, 56, 57, 53, 55, 53, 99, 55, 53, 97, 48, 48, 51, 102, 48,
      56, 57, 100, 50, 55, 51, 57, 56, 51, 57, 100, 101, 99, 53, 56, 98, 57, 54, 52,
      101, 99, 51, 56, 52, 51>>

\* C5: when a call signs, the header it puts on the request is "HMAC-SHA256
\* apiKey=" with the client's APIKey, ", date=" with the date, ", salt=" with
\* the salt and ", signature=" with the 64 hex digits of HMAC-SHA256 under the
\* client's APISecret (empty or not) of the date followed by the salt, the
\* date being an RFC 3339 time and the salt 40 hex digits; and HMAC-SHA256
\* is the function of RFC 4231.
C5_Signature ==
  /\ []Rfc4231Case2
  /\ [][\A c \in Callers :
          (pc[c] = "built" /\ pc'[c] = "signed")
            => LET d == signing'[c].date
                   s == signing'[c].salt
                   sig == HmacSha256Hex(client.APISecret, d \o s)
               IN /\ req'[c].header["Authorization"] =
                       AuthPrefix \o client.APIKey \o AuthDate \o d \o AuthSalt \o s \o
                       AuthSignature \o sig
                  /\ Len(sig) = 64
                  /\ d \in {RFC3339(t) : t \in Instants}
                  /\ s \in {HexEncode(r) : r \in RandomReads(SaltBytes)}]_vars

\* the header for the key "NCSKEY01", the empty secret, the date
\* "2021-03-09T04:05:06Z" and the salt of forty "0", its signature computed
\* by another implementation of HMAC-SHA256
EmptySecretHeader ==
  <<72, 77, 65, 67, 45, 83, 72, 65, 50, 53, 54, 32, 97, 112, 105, 75, 101, 121, 61, 78,
  67, 83, 75, 69, 89, 48, 49, 44, 32, 100, 97, 116, 101, 61, 50, 48, 50, 49, 45, 48,
  51, 45, 48, 57, 84, 48, 52, 58, 48, 53, 58, 48, 54, 90, 44, 32, 115, 97, 108, 116,
  61, 48, 48, 48, 48, 48, 48, 48, 48, 48, 48, 48, 48, 48, 48, 48, 48, 48, 48, 48, 48,
  48, 48, 48, 48, 48, 48, 48, 48, 48, 48, 48, 48, 48, 48, 48, 48, 48, 48, 48, 48, 44,
  32, 115, 105, 103, 110, 97, 116, 117, 114, 101, 61, 56, 101, 56, 100, 52, 101, 57,
  51, 99, 51, 98, 98, 53, 102, 98, 56, 54, 51, 49, 101, 51, 98, 51, 100, 51, 53, 100,
  50, 53, 52, 51, 97, 48, 55, 53, 49, 49, 52, 48, 56, 98, 101, 98, 56, 56, 55, 101, 97,
  52, 57, 48, 49, 51, 51, 57, 54, 57, 55, 51, 48, 49, 97, 99, 52>>

C5_Witness ==
  \E c \in Callers :
    /\ pc[c] = "signed" /\ client.APISecret = <<>>
    /\ req[c].header["Authorization"] = EmptySecretHeader

\* C6: a call whose send failed returns the error "FailedToClientRequest",
\* has decoded nothing, and leaves the caller's customStruct as it was.
C6_TransportFailure ==
  \A c \in Callers :
    (pc[c] = "returned" /\ meter[c].sends = 1 /\ resp[c] = NoResp)
      => /\ out[c].err = [type |-> "*errors.errorString", text |-> ErrClientText]
         /\ meter[c].decodes = 0
         /\ out[c].result = ZeroResult

C6_Witness ==
  \E c \in Callers :
    /\ pc[c] = "returned" /\ fn[c] = "GET" /\ meter[c].sends = 1 /\ resp[c] = NoResp
    /\ out[c].err = errFailedToClientRequest /\ meter[c].decodes = 0

\* C7: a call answered with a status other than 200 and a body that does not
\* decode as a JSON object returns the decoder's error, not an error made
\* from the status code.
C7_ErrorBodyUndecodable ==
  \A c \in Callers :
    (Answered(c) /\ resp[c].status # 200 /\ resp[c].body.form \in Undecodable)
      => /\ out[c].err = DecodeFailure(resp[c].body.form)
         /\ out[c].err.type # "*errors.errorString"
         /\ out[c].result = ZeroResult

C7_Witness ==
  \E c \in Callers :
    /\ Answered(c) /\ fn[c] = "Request"
    /\ resp[c].status = 500 /\ resp[c].body = EmptyDoc
    /\ out[c].err.type = "io.EOF"

\* {"file":"abc"}
FileJson == <<123, 34, 102, 105, 108, 101, 34, 58, 34, 97, 98, 99, 34, 125>>

\* C8: a Request whose params do not marshal has returned the error
\* "FailedToConvertJSON" with no request built, nothing signed, nothing sent
\* and nothing decoded; a Request whose params marshal builds a request with
\* their JSON as body; and a Request and a GET that got the same answer, or
\* whose sends both failed, return the same error and result and leave the
\* body in the same state.
C8_SerializeFirst ==
  /\ \A c \in Callers :
       /\ (fn[c] = "Request" /\ arg[c].kind = "chan")
            => /\ pc[c] = "returned"
               /\ out[c] = [err |-> [type |-> "*errors.errorString", text |-> ErrConvertText],
                            result |-> ZeroResult]
               /\ req[c] = NoReq /\ meter[c] = ZeroMeter /\ resp[c] = NoResp
       /\ (fn[c] = "Request" /\ arg[c] = MapPayload(FileParams) /\ pc[c] \in {"built", "signed"})
            => req[c].ptr = "req" /\ req[c].body = FileJson
  /\ \A c, d \in Callers :
       (/\ fn[c] = "GET" /\ fn[d] = "Request"
        /\ pc[c] = "returned" /\ pc[d] = "returned"
        /\ meter[c].sends = 1 /\ meter[d].sends = 1
        /\ resp[c].status = resp[d].status /\ resp[c].body = resp[d].body)
         => out[c] = out[d] /\ resp[c].open = resp[d].open

C8_Witness ==
  \E c, d \in Callers :
    /\ fn[c] = "Request" /\ arg[c] = ChanPayload /\ pc[c] = "returned"
    /\ out[c].err = errFailedToConvertJSON
    /\ fn[d] = "Request" /\ arg[d] = MapPayload(FileParams) /\ pc[d] = "signed"

\* C9: every SetCustomConfig returns nil and leaves each of APIKey, APISecret,
\* Protocol, Domain, Prefix and AppId with the value the map gives it, or as it
\* was when the map does not name it, and every other field of the client
\* as it was; the empty map changes nothing.
C9_SetCustomConfig ==
  [][/\ cfgRet' = Nil
     /\ DOMAIN client' = DOMAIN client
     /\ \A f \in DOMAIN client :
          client'[f] = IF f \in ConfigFields \cap DOMAIN cfgArg' THEN cfgArg'[f] ELSE client[f]
     /\ cfgArg' = NoParams => client' = client]_vars

C9_Witness ==
  /\ cfgArg = ("Prefix" :> ValueX) @@ ("Timeout" :> ValueX)
  /\ cfgRet = Nil
  /\ client.Prefix = ValueX /\ client.Domain = <<>> /\ client.APIKey = <<>>

\* C10: no step of a GET or a Request changes a field of the client, whatever
\* the other callers are doing; and two calls of the same function with the
\* same params that got the same answer, or whose sends both failed, return
\* the same error and result.
C10_CallsShareNothing ==
  /\ [][(\E c \in Callers : pc'[c] # pc[c]) => client' = client]_vars
  /\ [](\A c, d \in Callers :
          (/\ pc[c] = "returned" /\ pc[d] = "returned"
           /\ fn[c] = fn[d] /\ arg[c] = arg[d] /\ meter[c].sends = meter[d].sends
           /\ resp[c].status = resp[d].status /\ resp[c].body = resp[d].body)
            => out[c] = out[d])

C10_Witness ==
  \E c, d \in Callers :
    /\ c # d /\ pc[c] = "signed" /\ pc[d] = "responded"
    /\ fn[c] = "GET" /\ fn[d] = "Request"

====
